---- MODULE Spec2Model ----
(***************************************************************************)
(* The heartbeat supervision loop of app.py (heartbeat_check, lines        *)
(* 170-235) over the process-wide connection_state record (lines 50-55).   *)
(*                                                                         *)
(* Each running invocation of heartbeat_check is a process with a program  *)
(* counter; one step of the model is one statement (or one blocking call)  *)
(* of the function.  The collaborators the loop calls are the environment: *)
(* send_backend_request returns a (result, error) pair or raises, and      *)
(* socketio.emit either publishes the event or raises.                     *)
(***************************************************************************)
EXTENDS Naturals, Integers, Sequences, FiniteSets, TLC

VARIABLES
    connected,              \* connection_state["connected"]
    last_heartbeat,         \* connection_state["last_heartbeat"] (NoneTime = None)
    heartbeat_failures,     \* connection_state["heartbeat_failures"]
    reconnect_in_progress,  \* connection_state["reconnect_in_progress"]
    pc,                     \* position of each invocation of heartbeat_check
    tmp,                    \* value loaded by an invocation's pending "+= 1"
    events,                 \* connection_status events published, in order
    now,                    \* the clock datetime.now() reads
    log,                    \* history: one record per heartbeat request issued
    cur,                    \* history: index in log of each invocation's current poll
    cancel,                 \* history: the moment connected was cleared from outside
    check,                  \* what the last call of checkOnce handed to its caller
    restarts                \* history: how often heartbeat_check was invoked again

vars == <<connected, last_heartbeat, heartbeat_failures, reconnect_in_progress,
          pc, tmp, events, now, log, cur, cancel, check, restarts>>

conn_state == <<connected, last_heartbeat, heartbeat_failures, reconnect_in_progress>>
history == <<log, cur>>

\* ---------------------------------------------------------------- constants

\* MAX_HEARTBEAT_FAILURES = int(os.environ.get("MAX_HEARTBEAT_FAILURES", 3))
MAX_HEARTBEAT_FAILURES == 3

\* Bound of the model: the total number of heartbeat requests explored.
MaxPolls == 4

\* Bound of the model: the requests explored when two invocations run at once.
MaxConcPolls == 2

\* Bound of the model: how often a stopped heartbeat_check is invoked again.
MaxRestarts == 1

\* None, as the value of last_heartbeat before the first successful poll.
NoneTime == 0

\* A payload key that the event does not carry.
Absent == -1

\* The invocations of heartbeat_check: one in Spec, two in SpecConc.
Procs == {1, 2}

\* What send_backend_request hands back as `result`: None, {}, a dict without
\* "connected", {"connected": False}, {"connected": True}, or a truthy value
\* that is no dict (a malformed response body).
Results == {"None", "empty", "nokey", "false", "true", "malformed"}

\* What it hands back as `error`: None, {} or {"error": <message>}.
Errors == {"None", "empty", "err"}

\* ---------------------------------------------------------------- helpers

\* Python truthiness of `result` and of `error`.
Truthy(x) == x \notin {"None", "empty"}

\* result.get("connected", False): raises on a value that has no .get
GetRaises(result) == result = "malformed"
GetConnected(result) == result = "true"

\* Line 177 without its "not error".
IsSuccessIgnoresError(result, error) ==
    /\ Truthy(result)
    /\ ~GetRaises(result)
    /\ GetConnected(result)

\* line 177: not error and result and result.get("connected", False)
\* (and/or short-circuit: .get is only evaluated when the first two hold)
IsSuccess(result, error) ==
    /\ ~Truthy(error)
    /\ Truthy(result)
    /\ ~GetRaises(result)
    /\ GetConnected(result)

\* line 177 raising AttributeError
BranchRaises(result, error) ==
    /\ ~Truthy(error)
    /\ Truthy(result)
    /\ GetRaises(result)

\* the payloads of lines 183-187, 200-205 and 220-225
SuccessEvent(ts) ==
    [success |-> TRUE, message |-> "Connected to IBKR", timestamp |-> ts,
     consecutive_failures |-> Absent, max_failures |-> Absent]

FailureEvent(n) ==
    [success |-> FALSE, message |-> "Disconnected from IBKR", timestamp |-> Absent,
     consecutive_failures |-> n, max_failures |-> MAX_HEARTBEAT_FAILURES]

ExceptionEvent(n) ==
    [success |-> FALSE, message |-> "Heartbeat error", timestamp |-> Absent,
     consecutive_failures |-> n, max_failures |-> MAX_HEARTBEAT_FAILURES]

Active(i) == pc[i] \notin {"idle", "done", "crashed"}

\* ---------------------------------------------------------------- history

\* The number of requests explored: MaxPolls while one invocation runs,
\* MaxConcPolls once a second one has been started.
PollBound == IF \A i \in Procs \ {1} : pc[i] = "idle" THEN MaxPolls ELSE MaxConcPolls

\* The record of a request at the moment it is issued by invocation i.
NewPoll(i) ==
    [proc |-> i, out |-> "pending", emits |-> 0, msg |-> "", incs |-> 0,
     end |-> "running", hb0 |-> last_heartbeat, fails0 |-> heartbeat_failures,
     fails |-> Absent, hb |-> Absent,
     reported |-> FALSE, reset |-> FALSE, handler |-> FALSE,
     ets |-> Absent, ecf |-> Absent, slept |-> 0]

\* The reply as its reader sees it: no error came back and the result says
\* connected = true.
ReportsConnected(result, error) ==
    /\ error \in {"None", "empty"}
    /\ result = "true"

\* The history after the current poll of invocation i is given outcome o;
\* r tells whether the reply reported a live connection.
Outcome(i, o, r) == [log EXCEPT ![cur[i]].out = o, ![cur[i]].reported = r]

\* ... after lines 178-179 ran for it.
Reset(i) == [log EXCEPT ![cur[i]].reset = TRUE]

\* ... after the handler of line 214 was entered for it.
Handled(i) == [log EXCEPT ![cur[i]].handler = TRUE]

\* ... after the sleep that follows it returned.
Slept(i) == [log EXCEPT ![cur[i]].slept = @ + 1]

\* ... after event e was published for it.
Emitted(i, e) ==
    [log EXCEPT ![cur[i]].emits = @ + 1, ![cur[i]].msg = e.message,
                ![cur[i]].ets = e.timestamp,
                ![cur[i]].ecf = e.consecutive_failures]

\* ... after one more increment of the counter was made for it.
Incremented(i) == [log EXCEPT ![cur[i]].incs = @ + 1]

\* ... after its iteration ended in way e, with the state it leaves behind.
Ended(l, i, e) ==
    [l EXCEPT ![cur[i]].end = e,
              ![cur[i]].fails = heartbeat_failures,
              ![cur[i]].hb = last_heartbeat]

\* connected has not been cleared while a loop was running.  Otherwise the
\* record holds whether a request was in flight at that moment and how many
\* requests may have been issued once the iteration in progress is over.
NoCancel == [set |-> FALSE, inflight |-> FALSE, limit |-> 0]

\* No call of checkOnce has been made.
NoCheck ==
    [called |-> FALSE, fault |-> FALSE, raised |-> FALSE,
     connected |-> FALSE, verified |-> FALSE, error |-> FALSE]

\* ---------------------------------------------------------------- initial state

\* lines 50-55, no invocation of heartbeat_check running
Init ==
    /\ connected = FALSE
    /\ last_heartbeat = NoneTime
    /\ heartbeat_failures = 0
    /\ reconnect_in_progress = FALSE
    /\ pc = [i \in Procs |-> "idle"]
    /\ tmp = [i \in Procs |-> 0]
    /\ events = <<>>
    /\ now = 1
    /\ log = <<>>
    /\ cur = [i \in Procs |-> 0]
    /\ cancel = NoCancel
    /\ check = NoCheck
    /\ restarts = 0

\* ---------------------------------------------------------------- the environment

\* The owner of the connection lifecycle sets connected = True before it
\* starts the monitor.
Connect ==
    /\ ~connected
    /\ \A i \in Procs : pc[i] = "idle"
    /\ connected' = TRUE
    /\ UNCHANGED <<last_heartbeat, heartbeat_failures, reconnect_in_progress,
                   pc, tmp, events, now, cancel, check, restarts>>
    /\ UNCHANGED history

\* The same write, made again once the monitor has stopped (a reconnect).
Reconnect ==
    /\ ~connected
    /\ \A i \in Procs : ~Active(i)
    /\ connected' = TRUE
    /\ cancel' = NoCancel
    /\ UNCHANGED <<last_heartbeat, heartbeat_failures, reconnect_in_progress,
                   pc, tmp, events, now, check, restarts>>
    /\ UNCHANGED history

\* connection_state["connected"] is set to False from outside the loop.
Disconnect ==
    /\ connected
    /\ connected' = FALSE
    /\ cancel' = IF \E i \in Procs : Active(i)
                  THEN [set |-> TRUE, inflight |-> (\E i \in Procs : pc[i] = "await"),
                        limit |-> Len(log) + Cardinality({i \in Procs : pc[i] = "request"})]
                  ELSE cancel
    /\ UNCHANGED <<last_heartbeat, heartbeat_failures, reconnect_in_progress,
                   pc, tmp, events, now, check, restarts>>
    /\ UNCHANGED history

\* The outcomes of the one reachability check checkOnce performs: the backend
\* is reached and reports a live link, it reports none, or the check faults.
CheckOutcomes == {"up", "down", "fault"}

\* checkOnce letting the fault through to its caller.
CheckResultPropagates(o) ==
    [called |-> TRUE, fault |-> o = "fault", raised |-> o = "fault",
     connected |-> o = "up", verified |-> o = "up", error |-> FALSE]

\* What checkOnce returns: {connected, verified, timestamp}, or on an
\* exception {connected: false, verified: false, error, timestamp}.
CheckResult(o) ==
    [called |-> TRUE, fault |-> o = "fault", raised |-> FALSE,
     connected |-> o = "up", verified |-> o = "up", error |-> o = "fault"]

\* checkOnce(): one synchronous check, a pure read of the connection state.
CheckOnce ==
    /\ \E o \in CheckOutcomes : check' = CheckResult(o)
    /\ UNCHANGED <<conn_state, pc, tmp, events, now, cancel, restarts>>
    /\ UNCHANGED history

\* ---------------------------------------------------------------- heartbeat_check

\* line 170: heartbeat_check() is invoked (as a background task)
Start(i) ==
    /\ pc[i] = "idle"
    /\ pc' = [pc EXCEPT ![i] = "test"]
    /\ UNCHANGED <<conn_state, tmp, events, now, cancel, check, restarts>>
    /\ UNCHANGED history

\* heartbeat_check() starting its count afresh each time it is entered.
StartAgainResets(i) ==
    /\ pc[i] \in {"done", "crashed"}
    /\ restarts < MaxRestarts
    /\ restarts' = restarts + 1
    /\ pc' = [pc EXCEPT ![i] = "test"]
    /\ heartbeat_failures' = 0
    /\ UNCHANGED <<connected, last_heartbeat, reconnect_in_progress,
                   tmp, events, now, cancel, check>>
    /\ UNCHANGED history

\* line 170: heartbeat_check() is invoked again after an earlier invocation
\* has returned or died
StartAgain(i) ==
    /\ pc[i] \in {"done", "crashed"}
    /\ restarts < MaxRestarts
    /\ restarts' = restarts + 1
    /\ pc' = [pc EXCEPT ![i] = "test"]
    /\ UNCHANGED <<conn_state, tmp, events, now, cancel, check>>
    /\ UNCHANGED history

\* The loop test as "while True": the flag is never looked at.
LoopTestIgnoresFlag(i) ==
    /\ pc[i] = "test"
    /\ pc' = [pc EXCEPT ![i] = "request"]
    /\ UNCHANGED <<conn_state, tmp, events, now, cancel, check, restarts>>
    /\ UNCHANGED history

\* line 172: while connection_state["connected"]:
LoopTest(i) ==
    /\ pc[i] = "test"
    /\ pc' = [pc EXCEPT ![i] = IF connected THEN "request" ELSE "done"]
    /\ UNCHANGED <<conn_state, tmp, events, now, cancel, check, restarts>>
    /\ UNCHANGED history

\* line 174: the call send_backend_request("heartbeat", ...) is issued
SendRequest(i) ==
    /\ pc[i] = "request"
    /\ Len(log) < PollBound
    /\ pc' = [pc EXCEPT ![i] = "await"]
    /\ log' = Append(log, NewPoll(i))
    /\ cur' = [cur EXCEPT ![i] = Len(log) + 1]
    /\ now' = now + 1
    /\ UNCHANGED <<conn_state, tmp, events, cancel, check, restarts>>

\* lines 174-177: the call returns (result, error) and line 177 picks the branch
RequestReturns(i) ==
    /\ pc[i] = "await"
    /\ \E result \in Results, error \in Errors :
         /\ pc' = [pc EXCEPT ![i] =
                     IF IsSuccess(result, error) THEN "succ_update"
                     ELSE IF BranchRaises(result, error) THEN "exc_read"
                     ELSE "fail_read"]
         /\ log' = Outcome(i,
                     IF IsSuccess(result, error) THEN "success"
                     ELSE IF BranchRaises(result, error) THEN "malformed"
                     ELSE IF ~Truthy(error) /\ result = "false" THEN "connected_false"
                     ELSE "failure",
                     ReportsConnected(result, error))
    /\ UNCHANGED <<conn_state, tmp, events, now, cur, cancel, check, restarts>>

\* line 174: the call raises (a network error that is not turned into an error pair)
RequestRaises(i) ==
    /\ pc[i] = "await"
    /\ pc' = [pc EXCEPT ![i] = "exc_read"]
    /\ log' = Outcome(i, "raised", FALSE)
    /\ UNCHANGED <<conn_state, tmp, events, now, cur, cancel, check, restarts>>

\* lines 178-179: the counter is reset and last_heartbeat = datetime.now()
SuccUpdate(i) ==
    /\ pc[i] = "succ_update"
    /\ heartbeat_failures' = 0
    /\ last_heartbeat' = now
    /\ pc' = [pc EXCEPT ![i] = "succ_emit"]
    /\ log' = Reset(i)
    /\ UNCHANGED <<connected, reconnect_in_progress, tmp, events, now, cur, cancel, check, restarts>>

\* lines 181-188: socketio.emit publishes the success event; the iteration
\* falls through to the sleep of line 235
SuccEmit(i) ==
    /\ pc[i] = "succ_emit"
    /\ events' = Append(events, SuccessEvent(last_heartbeat))
    /\ log' = Ended(Emitted(i, SuccessEvent(last_heartbeat)), i, "sleep")
    /\ pc' = [pc EXCEPT ![i] = "sleep"]
    /\ UNCHANGED <<conn_state, tmp, now, cur, cancel, check, restarts>>

\* lines 181-188: socketio.emit raises; control passes to the handler of line 214
SuccEmitRaises(i) ==
    /\ pc[i] = "succ_emit"
    /\ pc' = [pc EXCEPT ![i] = "exc_read"]
    /\ UNCHANGED <<conn_state, tmp, events, now, cancel, check, restarts>>
    /\ UNCHANGED history

\* line 192: connection_state["heartbeat_failures"] += 1, the load
FailRead(i) ==
    /\ pc[i] = "fail_read"
    /\ tmp' = [tmp EXCEPT ![i] = heartbeat_failures]
    /\ pc' = [pc EXCEPT ![i] = "fail_write"]
    /\ UNCHANGED <<conn_state, events, now, cancel, check, restarts>>
    /\ UNCHANGED history

\* line 192: the store (lines 193-196 log the cause and change no state)
FailWrite(i) ==
    /\ pc[i] = "fail_write"
    /\ heartbeat_failures' = tmp[i] + 1
    /\ log' = Incremented(i)
    /\ pc' = [pc EXCEPT ![i] = "fail_emit"]
    /\ UNCHANGED <<connected, last_heartbeat, reconnect_in_progress, tmp, events,
                   now, cur, cancel, check, restarts>>

\* lines 198-206: socketio.emit publishes the failure event
FailEmit(i) ==
    /\ pc[i] = "fail_emit"
    /\ events' = Append(events, FailureEvent(heartbeat_failures))
    /\ log' = Emitted(i, FailureEvent(heartbeat_failures))
    /\ pc' = [pc EXCEPT ![i] = "fail_check"]
    /\ UNCHANGED <<conn_state, tmp, now, cur, cancel, check, restarts>>

\* lines 198-206: socketio.emit raises; control passes to the handler of line 214
FailEmitRaises(i) ==
    /\ pc[i] = "fail_emit"
    /\ pc' = [pc EXCEPT ![i] = "exc_read"]
    /\ UNCHANGED <<conn_state, tmp, events, now, cancel, check, restarts>>
    /\ UNCHANGED history

\* The threshold check with > in place of >=.
FailCheckOffByOne(i) ==
    /\ pc[i] = "fail_check"
    /\ IF heartbeat_failures > MAX_HEARTBEAT_FAILURES
       THEN /\ pc' = [pc EXCEPT ![i] = "done"]
            /\ log' = Ended(log, i, "break")
       ELSE /\ pc' = [pc EXCEPT ![i] = "sleep"]
            /\ log' = Ended(log, i, "sleep")
    /\ UNCHANGED <<conn_state, tmp, events, now, cur, cancel, check, restarts>>

\* The give-up exit marking the connection as down before it breaks.
FailCheckClearsConnected(i) ==
    /\ pc[i] = "fail_check"
    /\ IF heartbeat_failures >= MAX_HEARTBEAT_FAILURES
       THEN /\ pc' = [pc EXCEPT ![i] = "done"]
            /\ log' = Ended(log, i, "break")
            /\ connected' = FALSE
       ELSE /\ pc' = [pc EXCEPT ![i] = "sleep"]
            /\ log' = Ended(log, i, "sleep")
            /\ connected' = connected
    /\ UNCHANGED <<last_heartbeat, heartbeat_failures, reconnect_in_progress,
                   tmp, events, now, cur, cancel, check, restarts>>

\* lines 208-212: the threshold check of the failure branch: break, or fall
\* through to the sleep of line 235
FailCheck(i) ==
    /\ pc[i] = "fail_check"
    /\ IF heartbeat_failures >= MAX_HEARTBEAT_FAILURES
       THEN /\ pc' = [pc EXCEPT ![i] = "done"]
            /\ log' = Ended(log, i, "break")
       ELSE /\ pc' = [pc EXCEPT ![i] = "sleep"]
            /\ log' = Ended(log, i, "sleep")
    /\ UNCHANGED <<conn_state, tmp, events, now, cur, cancel, check, restarts>>

\* line 215: connection_state["heartbeat_failures"] += 1 in the handler, the load
ExcRead(i) ==
    /\ pc[i] = "exc_read"
    /\ tmp' = [tmp EXCEPT ![i] = heartbeat_failures]
    /\ pc' = [pc EXCEPT ![i] = "exc_write"]
    /\ log' = Handled(i)
    /\ UNCHANGED <<conn_state, events, now, cur, cancel, check, restarts>>

\* line 215: the store (line 216 logs the exception)
ExcWrite(i) ==
    /\ pc[i] = "exc_write"
    /\ heartbeat_failures' = tmp[i] + 1
    /\ log' = Incremented(i)
    /\ pc' = [pc EXCEPT ![i] = "exc_emit"]
    /\ UNCHANGED <<connected, last_heartbeat, reconnect_in_progress, tmp, events,
                   now, cur, cancel, check, restarts>>

\* lines 218-226: socketio.emit publishes the event of the handler
ExcEmit(i) ==
    /\ pc[i] = "exc_emit"
    /\ events' = Append(events, ExceptionEvent(heartbeat_failures))
    /\ log' = Emitted(i, ExceptionEvent(heartbeat_failures))
    /\ pc' = [pc EXCEPT ![i] = "exc_check"]
    /\ UNCHANGED <<conn_state, tmp, now, cur, cancel, check, restarts>>

\* lines 218-226: socketio.emit raises inside the handler; no try encloses it,
\* so the exception leaves heartbeat_check
ExcEmitRaises(i) ==
    /\ pc[i] = "exc_emit"
    /\ pc' = [pc EXCEPT ![i] = "crashed"]
    /\ log' = Ended(log, i, "raise")
    /\ UNCHANGED <<conn_state, tmp, events, now, cur, cancel, check, restarts>>

\* The handler ending a below-threshold iteration with "continue": line 235 is
\* skipped.
ExcCheckNoSleep(i) ==
    /\ pc[i] = "exc_check"
    /\ IF heartbeat_failures >= MAX_HEARTBEAT_FAILURES
       THEN /\ pc' = [pc EXCEPT ![i] = "done"]
            /\ log' = Ended(log, i, "break")
       ELSE /\ pc' = [pc EXCEPT ![i] = "test"]
            /\ log' = Ended(log, i, "sleep")
    /\ UNCHANGED <<conn_state, tmp, events, now, cur, cancel, check, restarts>>

\* lines 228-232: the threshold check of the handler
ExcCheck(i) ==
    /\ pc[i] = "exc_check"
    /\ IF heartbeat_failures >= MAX_HEARTBEAT_FAILURES
       THEN /\ pc' = [pc EXCEPT ![i] = "done"]
            /\ log' = Ended(log, i, "break")
       ELSE /\ pc' = [pc EXCEPT ![i] = "sleep"]
            /\ log' = Ended(log, i, "sleep")
    /\ UNCHANGED <<conn_state, tmp, events, now, cur, cancel, check, restarts>>

\* line 235: socketio.sleep(30) returns
Sleep(i) ==
    /\ pc[i] = "sleep"
    /\ pc' = [pc EXCEPT ![i] = "test"]
    /\ log' = Slept(i)
    /\ UNCHANGED <<conn_state, tmp, events, now, cur, cancel, check, restarts>>

\* one statement of invocation i
Step(i) ==
    \/ LoopTest(i)
    \/ SendRequest(i)
    \/ RequestReturns(i)
    \/ RequestRaises(i)
    \/ SuccUpdate(i)
    \/ SuccEmit(i)
    \/ SuccEmitRaises(i)
    \/ FailRead(i)
    \/ FailWrite(i)
    \/ FailEmit(i)
    \/ FailEmitRaises(i)
    \/ FailCheck(i)
    \/ ExcRead(i)
    \/ ExcWrite(i)
    \/ ExcEmit(i)
    \/ ExcEmitRaises(i)
    \/ ExcCheck(i)
    \/ Sleep(i)

\* ---------------------------------------------------------------- specifications

\* One invocation of heartbeat_check, started once.
Next ==
    \/ Connect
    \/ Disconnect
    \/ Start(1)
    \/ Step(1)

Spec == Init /\ [][Next]_vars

\* The background task is scheduled, the request is bounded by its timeout and
\* the sleep returns: every statement of the running invocation is taken.
FairSpec == Spec /\ WF_vars(Step(1))

\* heartbeat_check has no guard of its own and connection_state records no
\* running monitor: any number of invocations may be started, at any time.
NextConc ==
    \/ Connect
    \/ Disconnect
    \/ \E i \in Procs : Start(i) \/ Step(i)

SpecConc == Init /\ [][NextConc]_vars

\* One invocation at a time, started again after it has stopped, with the
\* connection re-established from outside.
NextRestart ==
    \/ Reconnect
    \/ Disconnect
    \/ Start(1)
    \/ StartAgain(1)
    \/ Step(1)

SpecRestart == Init /\ [][NextRestart]_vars

\* The loop of Next with checkOnce called from the request handlers beside it.
NextCheck ==
    \/ Connect
    \/ Disconnect
    \/ Start(1)
    \/ Step(1)
    \/ CheckOnce

SpecCheck == Init /\ [][NextCheck]_vars

\* ---------------------------------------------------------------- reading the history

\* The polls whose iteration has ended: in the sleep of line 235, by a break,
\* or by an exception that left the function.
Completed(k) == log[k].end \in {"sleep", "break", "raise"}
Returned(k) == log[k].end \in {"sleep", "break"}

\* Poll k failed: anything but a response reporting connected = True.
FailedPoll(k) == log[k].out # "success"

\* The number of failed polls up to poll k since the most recent successful one.
FailedSince(k) ==
    Cardinality({j \in 1..k : \A m \in j..k : FailedPoll(m)})

\* socketio.emit raised during the iteration of poll k: the handler of line 214
\* ran although the branch of line 177 had been entered.
PublishFailed(k) ==
    \/ log[k].end = "raise"
    \/ log[k].out = "success" /\ log[k].incs > 0
    \/ log[k].out \in {"failure", "connected_false"} /\ log[k].incs > 1

\* ---------------------------------------------------------------- claims

\* C1: after each poll, heartbeat_failures equals the number of failed polls
\* since the most recent successful poll (0 right after a success, +1 per
\* failed poll).
C1_CounterIsFailuresSinceSuccess ==
    \A k \in 1..Len(log) : Returned(k) => log[k].fails = FailedSince(k)

\* The same, for the runs in which publishing never raised: the counter is off
\* only through the handler of line 214 counting a poll a second time.
CounterExactWhilePublishWorks ==
    \A k \in 1..Len(log) :
        (Returned(k) /\ \A j \in 1..k : ~PublishFailed(j))
            => log[k].fails = FailedSince(k)

\* C2: the loop has stopped only if heartbeat_failures has reached
\* MAX_HEARTBEAT_FAILURES or connected was cleared from outside (the "only if"
\* half of the claim; a stopped loop issues no further request).
C2_StopsOnlyAtThresholdOrCancel ==
    pc[1] \in {"done", "crashed"} =>
        (heartbeat_failures >= MAX_HEARTBEAT_FAILURES \/ ~connected)

\* C3: every poll results in exactly one published connection_status event,
\* never zero and never two.
C3_ExactlyOneEventPerPoll ==
    \A k \in 1..Len(log) :
        /\ log[k].emits <= 1
        /\ Completed(k) => log[k].emits = 1

\* C4: no exception raised during an iteration leaves the loop.
C4_NoExceptionLeavesLoop ==
    \A i \in Procs : pc[i] # "crashed"

\* C5: from heartbeat_failures = 0, MAX_HEARTBEAT_FAILURES consecutive failing
\* polls publish exactly that many failure events, with consecutive_failures
\* 1, 2, ..., MAX_HEARTBEAT_FAILURES in that order, and the loop then stops
\* without a further request.
C5_FailuresCountUpToThreshold ==
    LET N == MAX_HEARTBEAT_FAILURES IN
    (/\ Len(log) >= N
     /\ \A k \in 1..N : log[k].out \notin {"success", "pending"}
     /\ Returned(N))
        => /\ Len(events) = N
           /\ \A k \in 1..N : /\ events[k].success = FALSE
                              /\ events[k].consecutive_failures = k
           /\ pc[1] = "done"
           /\ Len(log) = N

\* C6: last_heartbeat changes only in an iteration whose poll succeeded; for
\* the outcomes failure, failure, success the counter goes 1, 2, 0 and only the
\* third poll updates last_heartbeat.
C6_LastHeartbeatOnlyOnSuccess ==
    /\ \A k \in 1..Len(log) :
          (Returned(k) /\ FailedPoll(k)) => log[k].hb = log[k].hb0
    /\ (/\ Len(log) >= 3
        /\ log[1].out \notin {"success", "pending"}
        /\ log[2].out \notin {"success", "pending"}
        /\ log[3].out = "success"
        /\ Returned(3))
          => /\ <<log[1].fails, log[2].fails, log[3].fails>> = <<1, 2, 0>>
             /\ log[1].hb = log[1].hb0
             /\ log[2].hb = log[2].hb0
             /\ log[3].hb # log[3].hb0

\* The part of C6 about last_heartbeat alone: a poll that did not succeed
\* leaves it as it was, and a poll that succeeded sets it.
LastHeartbeatFrame ==
    \A k \in 1..Len(log) :
        Completed(k) => ((log[k].hb # log[k].hb0) <=> log[k].out = "success")

\* C7: a response without error whose body reports connected = False is
\* handled as a failure: the counter is incremented (once), the event published
\* for the poll has success = False and message "Disconnected from IBKR", and
\* no success event is published for it.
C7_ConnectedFalseIsFailure ==
    \A k \in 1..Len(log) :
        (log[k].out = "connected_false" /\ Returned(k))
            => /\ log[k].emits = 1
               /\ log[k].msg = FailureEvent(0).message
               /\ log[k].fails = log[k].fails0 + 1

\* The part of C7 about the branch taken: such a poll never resets the counter
\* nor publishes a success event, and the event of line 198 is the failure event.
ConnectedFalseTakesFailureBranch ==
    \A k \in 1..Len(log) :
        log[k].out = "connected_false"
            => /\ log[k].msg # SuccessEvent(0).message
               /\ (log[k].end # "running" => log[k].fails > log[k].fails0)
               /\ (~PublishFailed(k) /\ Completed(k)
                     => log[k].msg = FailureEvent(0).message /\ log[k].incs = 1)

\* C8: at most one monitor loop is polling at any time.
C8_AtMostOneMonitor ==
    Cardinality({i \in Procs : Active(i) /\ pc[i] # "test"}) <= 1

\* C9: cancellation is by flag and observed only at the iteration boundary:
\* once connected is cleared, no request beyond the one of the iteration in
\* progress is issued, the loop never returns with a poll cut short, and it
\* then exits.
Stopped(i) == pc[i] \in {"done", "crashed"}

C9_CancelAtBoundary ==
    /\ [](cancel.set => Len(log) <= cancel.limit)
    /\ [](pc[1] = "done" => \A k \in 1..Len(log) : Completed(k))
    /\ (cancel.set /\ cancel.limit <= MaxPolls) ~> Stopped(1)

C9_Witness ==
    /\ cancel.set
    /\ cancel.inflight
    /\ pc[1] = "done"
    /\ Len(log) = cancel.limit
    /\ log[Len(log)].end = "sleep"
    /\ log[Len(log)].emits = 1

\* C10: giving up is terminal and is reached under persistent failure: while
\* connected stays True and every further poll fails the loop exits, and once
\* heartbeat_failures >= MAX_HEARTBEAT_FAILURES the invocation is past its last
\* request, never sleeps again and, once it has returned, publishes nothing.
C10_GiveUpIsTerminal ==
    /\ \A n \in 0..MaxPolls :
          (pc[1] = "test" /\ connected /\ Len(log) = n)
             ~> \/ Stopped(1)
                \/ ~connected
                \/ \E k \in (n+1)..Len(log) : log[k].out = "success"
                \/ (Len(log) = MaxPolls /\ pc[1] = "request")
    /\ [](heartbeat_failures >= MAX_HEARTBEAT_FAILURES
            => pc[1] \in {"fail_emit", "fail_check", "exc_read", "exc_write",
                          "exc_emit", "exc_check", "done", "crashed"})
    /\ [][Stopped(1) => (pc' = pc /\ log' = log /\ events' = events)]_vars

C10_Witness ==
    /\ pc[1] = "done"
    /\ connected
    /\ heartbeat_failures >= MAX_HEARTBEAT_FAILURES
    /\ Len(log) = MAX_HEARTBEAT_FAILURES
    /\ \A k \in 1..Len(log) : log[k].out # "success" /\ log[k].end # "running"
    /\ log[Len(log)].end = "break"

\* C11: checkOnce never raises to its caller and never changes the connection
\* state: every call hands back a result, and when the check faulted inside,
\* the result has connected = false, verified = false and carries an error.
C11_CheckOnceTotalAndPure ==
    /\ [](check.called =>
            /\ ~check.raised
            /\ check.fault => (~check.connected /\ ~check.verified /\ check.error))
    /\ [][check' # check => conn_state' = conn_state]_vars

\* a check faulted while the loop was counting failures
C11_Witness ==
    /\ check.called
    /\ check.fault
    /\ Active(1)
    /\ heartbeat_failures > 0

C13_OrderWithinIteration ==
    \A k \in 1..Len(log) :
        LET p == log[k] IN
        /\ (p.emits > 0 /\ p.msg = "Connected to IBKR") =>
                /\ p.reset
                /\ p.ets # p.hb0
                /\ p.ets = last_heartbeat \/ k < Len(log)
        /\ (p.emits > 0 /\ p.msg # "Connected to IBKR") =>
                /\ p.incs >= 1
                /\ p.ecf = (IF p.reset THEN 0 ELSE p.fails0) + p.incs
        /\ Returned(k) => p.emits = 1
        /\ p.end = "break" => (p.fails >= MAX_HEARTBEAT_FAILURES /\ p.slept = 0)
        /\ p.end = "sleep" => p.fails < MAX_HEARTBEAT_FAILURES
        /\ p.slept <= 1
        /\ p.slept = 1 => p.end = "sleep"
        /\ k < Len(log) => (p.end = "sleep" /\ p.slept = 1)

\* a success and a below-threshold failure were each followed by one sleep and
\* the next request, and the poll that reached the threshold ended the loop
C13_Witness ==
    /\ pc[1] = "done"
    /\ \E i, j \in 1..Len(log) :
          /\ i < Len(log) /\ log[i].msg = "Connected to IBKR" /\ log[i].slept = 1
          /\ j < Len(log) /\ log[j].msg = "Disconnected from IBKR" /\ log[j].slept = 1
    /\ log[Len(log)].end = "break"
    /\ log[Len(log)].slept = 0

\* C14: an exception raised anywhere inside the try block of an iteration is
\* handled as one failure: the counter is incremented exactly once for that
\* poll, one failure event carrying the incremented count and max_failures is
\* published, and the loop exits exactly if the count has reached
\* MAX_HEARTBEAT_FAILURES.
C14_ExceptionCountedOnce ==
    \A k \in 1..Len(log) :
        LET p == log[k] IN
        (p.handler /\ Returned(k)) =>
            /\ p.incs = 1
            /\ p.emits = 1
            /\ p.msg = "Heartbeat error"
            /\ p.ecf = p.fails
            /\ p.end = "break" <=> p.fails >= MAX_HEARTBEAT_FAILURES

\* The part of C14 that holds: an exception raised before the iteration wrote
\* anything (by the request, or by line 177 on a malformed result) is counted
\* once.
ExceptionBeforeWriteCountedOnce ==
    \A k \in 1..Len(log) :
        LET p == log[k] IN
        (p.out \in {"raised", "malformed"} /\ Returned(k)) =>
            /\ p.handler
            /\ p.incs = 1
            /\ p.emits = 1
            /\ p.ecf = p.fails0 + 1
            /\ p.fails = p.fails0 + 1
            /\ p.end = "break" <=> p.fails >= MAX_HEARTBEAT_FAILURES

\* C15: heartbeat_check writes only heartbeat_failures and last_heartbeat: no
\* step of the loop changes connected or reconnect_in_progress, and at the
\* give-up exit connected keeps its value, which is true unless it was cleared
\* from outside.
C15_LoopLeavesConnectedAlone ==
    /\ [][pc' # pc =>
            /\ connected' = connected
            /\ reconnect_in_progress' = reconnect_in_progress]_vars
    /\ [][(pc[1] \in {"fail_check", "exc_check"} /\ pc'[1] = "done") =>
            /\ connected' = connected
            /\ ~cancel.set => connected']_vars

\* the loop has given up and connected is still true
C15_Witness ==
    /\ pc[1] = "done"
    /\ Len(log) > 0
    /\ log[Len(log)].end = "break"
    /\ heartbeat_failures >= MAX_HEARTBEAT_FAILURES
    /\ connected
    /\ ~reconnect_in_progress

\* Every failure event published carries the value the counter has at that
\* moment.
PublishedCountIsCounter ==
    \A k \in 1..Len(log) :
        LET p == log[k] IN
        (p.emits > 0 /\ p.msg # "Connected to IBKR") =>
            /\ p.end = "running" => p.ecf = heartbeat_failures
            /\ Returned(k) => p.ecf = p.fails

\* C16: in a single run of heartbeat_check started with the counter at 0,
\* every reachable state has 0 <= heartbeat_failures <= MAX_HEARTBEAT_FAILURES,
\* and every published failure event carries consecutive_failures equal to
\* the counter's value at the moment of publishing.
C16_CounterWithinThreshold ==
    /\ heartbeat_failures >= 0
    /\ heartbeat_failures <= MAX_HEARTBEAT_FAILURES
    /\ PublishedCountIsCounter

\* The part of C16 that holds: the events are right about the counter, and
\* the counter passes the threshold by at most the one extra increment of
\* line 215.
CounterAtMostOnePastThreshold ==
    /\ heartbeat_failures >= 0
    /\ heartbeat_failures <= MAX_HEARTBEAT_FAILURES + 1
    /\ PublishedCountIsCounter

\* C17: heartbeat_failures is changed only by a poll outcome (the writes of
\* lines 178, 192 and 215); entering heartbeat_check and leaving it, by
\* give-up or by cancellation, leave the counter unchanged, so an invocation
\* started after an earlier one has exited goes on counting from the value
\* that one left.
C17_CounterSurvivesRestart ==
    /\ [][heartbeat_failures' # heartbeat_failures =>
            pc[1] \in {"succ_update", "fail_write", "exc_write"}]_vars
    /\ [][(pc[1] \in {"idle", "done", "crashed"} \/ pc'[1] \in {"done", "crashed"}) =>
            heartbeat_failures' = heartbeat_failures]_vars
    /\ [](\A k \in 2..Len(log) : log[k].fails0 = log[k - 1].fails)

\* an invocation that gave up at the threshold was followed by another one,
\* whose first request was issued with the counter still at the threshold
C17_Witness ==
    \E k \in 2..Len(log) :
        /\ log[k - 1].end = "break"
        /\ log[k - 1].fails >= MAX_HEARTBEAT_FAILURES
        /\ log[k].fails0 = log[k - 1].fails
        /\ log[k].out # "pending"
====
